---- MODULE Spec2Model ----
(***************************************************************************)
(* Model of the scheduling and delivery subsystem of telegram-tldr-bot:    *)
(* the in-memory schedule table, its JSON file, the per-chat asyncio job   *)
(* tasks and the command handlers that add and remove schedules.           *)
(*                                                                         *)
(* One action is one run of a coroutine between two suspension points      *)
(* (await), which asyncio executes without interleaving on its single      *)
(* thread.  The blocking call summarize_chat is the one place where a      *)
(* task keeps the thread while time passes: `blocked` names that task.     *)
(***************************************************************************)
EXTENDS Integers, Sequences, FiniteSets, TLC

\* ------------------------------------------------------------------ bounds
MaxTasks == 3       \* job tasks that exist at the same time
MaxTime == 1        \* last value of the clock time.time(), in minutes
MaxLen == 3         \* length of the time strings that are tried exhaustively
MaxSeconds == 3720  \* the intervals 0..MaxSeconds are formatted
MaxClients == 3     \* TelegramClient objects made in one run
MaxKeys == 3        \* API keys of the OpenRouter client
MaxRequests == 4    \* requests of one chat_completion call that are followed
MaxMessages == 3    \* messages in the history of a chat
MaxChars == 3       \* largest max_chars, and longest text of a message

\* ------------------------------------------------------- program constants
MIN_INTERVAL == 60
MAX_INTERVAL == 86400
COOLDOWN == 60

\* ------------------------------------------------------------------ inputs
Chats == {1, 2}
Users == {7, 8}
NoTask == 0

\* Strings are sequences of one-character strings.
Digits == <<"0", "1", "2", "3", "4", "5", "6", "7", "8", "9">>

IsDigit(ch) == \E i \in 1..10 : Digits[i] = ch

DigitVal(ch) == (CHOOSE i \in 1..10 : Digits[i] = ch) - 1

\* str.lower() on the characters the inputs use
Lower(ch) ==
    CASE ch = "S" -> "s"
      [] ch = "M" -> "m"
      [] ch = "H" -> "h"
      [] OTHER -> ch

LowerStr(s) == [i \in 1..Len(s) |-> Lower(s[i])]

RECURSIVE DigitsValue(_)
\* int() of a non-empty string of decimal digits
DigitsValue(s) ==
    IF Len(s) = 0 THEN 0
    ELSE 10 * DigitsValue(SubSeq(s, 1, Len(s) - 1)) + DigitVal(s[Len(s)])

AllDigits(s) == Len(s) >= 1 /\ \A i \in 1..Len(s) : IsDigit(s[i])

None == -1          \* Python's None where an int is expected

\* An int() that takes no sign
ParseUnsigned(s) == IF AllDigits(s) THEN DigitsValue(s) ELSE None

\* int(context.args[0]), int(chat_id_str): an optional sign and decimal
\* digits, else ValueError
ParseInt(s) ==
    IF AllDigits(s) THEN DigitsValue(s)
    ELSE IF Len(s) >= 2 /\ s[1] = "-" /\ AllDigits(Tail(s)) THEN 0 - DigitsValue(Tail(s))
    ELSE IF Len(s) >= 2 /\ s[1] = "+" /\ AllDigits(Tail(s)) THEN DigitsValue(Tail(s))
    ELSE None

IsInt(s) == AllDigits(s) \/ (Len(s) >= 2 /\ s[1] \in {"-", "+"} /\ AllDigits(Tail(s)))

RECURSIVE IntStr(_)
\* str(n)
IntStr(n) ==
    IF n < 0 THEN <<"-">> \o IntStr(0 - n)
    ELSE IF n < 10 THEN <<Digits[n + 1]>>
    ELSE Append(IntStr(n \div 10), Digits[(n % 10) + 1])

\* re.compile(r'^(\d+)([smh])$').match(timestring.lower()): `$` also matches
\* just before one trailing newline
MatchBody(s) ==
    LET l == LowerStr(s)
    IN  IF Len(l) >= 1 /\ l[Len(l)] = "\n" THEN SubSeq(l, 1, Len(l) - 1) ELSE l

Matches(s) ==
    LET b == MatchBody(s)
    IN  /\ Len(b) >= 2
        /\ b[Len(b)] \in {"s", "m", "h"}
        /\ AllDigits(SubSeq(b, 1, Len(b) - 1))

UnitFactor(u) ==
    CASE u = "m" -> 60
      [] u = "h" -> 3600
      [] OTHER -> 1

parse_timestring(timestring) ==
    IF ~Matches(timestring) THEN None
    ELSE LET b == MatchBody(timestring)
         IN  DigitsValue(SubSeq(b, 1, Len(b) - 1)) * UnitFactor(b[Len(b)])

\* A formatter that writes hours and minutes without the space
FormatCompact(seconds) ==
    IF seconds < 60 THEN IntStr(seconds) \o <<"s">>
    ELSE IF seconds < 3600 THEN IntStr(seconds \div 60) \o <<"m">>
    ELSE IF (seconds % 3600) \div 60 = 0 THEN IntStr(seconds \div 3600) \o <<"h">>
    ELSE IntStr(seconds \div 3600) \o <<"h">> \o IntStr((seconds % 3600) \div 60) \o <<"m">>

format_time_interval(seconds) ==
    IF seconds < 60 THEN IntStr(seconds) \o <<"s">>
    ELSE IF seconds < 3600 THEN IntStr(seconds \div 60) \o <<"m">>
    ELSE LET hours == seconds \div 3600
             minutes == (seconds % 3600) \div 60
         IN  IF minutes = 0 THEN IntStr(hours) \o <<"h">>
             ELSE IntStr(hours) \o <<"h", " ">> \o IntStr(minutes) \o <<"m">>

\* ------------------------------------------------------------------- state
VARIABLES
    schedules,      \* scheduler.schedules: chat_id -> record; task = NoTask when the
                    \* 'task' key is absent or its task is done
    file,           \* data/schedules.json: the members of its top-level object,
                    \* str(chat_id) -> {interval, last_run, user_id}
    document,       \* what opening and parsing the file gives: "object" (the
                    \* members are `file`), "missing", "garbage" (json.load
                    \* raises) or "array" (JSON, but no object at the top)
    tasks,          \* the asyncio job tasks, by handle; a done task frees its handle
    blocked,        \* the task inside the blocking summarize_chat call, or NoTask
    shutdown,       \* position of shutdown_scheduler: "idle", "waiting", "returned"
    now,            \* time.time()
    out,            \* what the last step wrote last: a handler's reply_text or a
                    \* log line of the scheduler, or nothing (the lines of
                    \* save_schedules are in persistFailed); `data` is what
                    \* the text is made from
    persistFailed,  \* the last save_schedules raised (and logged) an error
    telethon,       \* utils/telethon_client.py: the global telethon_client, the
                    \* TelegramClient objects made and connected, and where
                    \* each caller of its functions is
    openrouter      \* utils/summarizer.py openrouter_client: its fields and
                    \* the locals of its chat_completion call

vars ==
    <<schedules, file, document, tasks, blocked, shutdown, now, out, persistFailed,
      telethon, openrouter>>

EmptyMap == [k \in {} |-> 0]

Handles == 1..MaxTasks

\* A handle whose task is done (or was never created)
Free == [chat |-> 0, interval |-> 0, user_id |-> 0, pc |-> "done", must_cancel |-> FALSE]

NoData == {}

NoOutput == [who |-> 0, what |-> "none", data |-> NoData]

\* task.done()
Done(t) == tasks[t].pc = "done"

\* spawned, not terminated, no cancel request pending
Live(t) == ~Done(t) /\ ~tasks[t].must_cancel

LiveTasksOf(c) == {t \in Handles : tasks[t].chat = c /\ Live(t)}

\* A copy that keeps the 'task' key
WithHandle(rec) == rec

\* {k: v for k, v in details.items() if k != 'task'}
Details(rec) == [k \in DOMAIN rec \ {"task"} |-> rec[k]]

\* details[key] = v
With(details, key, v) ==
    [k \in DOMAIN details \cup {key} |-> IF k = key THEN v ELSE details[k]]

\* details.get('user_id')
Owner(rec) == IF "user_id" \in DOMAIN rec THEN rec.user_id ELSE None

\* save_schedules builds serializable_schedules[str(chat_id)] = Details(details)
Serializable(mem) ==
    [k \in {IntStr(c) : c \in DOMAIN mem} |->
        Details(mem[CHOOSE c \in DOMAIN mem : IntStr(c) = k])]

\* asyncio.create_task(run_scheduled_summarization(chat_id, interval, bot, user_id))
NewTask(chat_id, interval, user_id) ==
    [chat |-> chat_id, interval |-> interval, user_id |-> user_id,
     pc |-> "new", must_cancel |-> FALSE]

FreeHandles(tsk) == {t \in Handles : tsk[t].pc = "done"}

\* The i-th free handle
NthFree(tsk, i) ==
    CHOOSE t \in FreeHandles(tsk) : Cardinality({f \in FreeHandles(tsk) : f <= t}) = i

\* A replacement or removal that leaves the old task running
CancelNothing(mem, tsk, chat_id) == tsk

\* if chat_id in schedules and 'task' in schedules[chat_id]:
\*     task = schedules[chat_id]['task']; if not task.done(): task.cancel()
CancelTaskOf(mem, tsk, chat_id) ==
    IF chat_id \in DOMAIN mem /\ mem[chat_id].task # NoTask
    THEN [tsk EXCEPT ![mem[chat_id].task].must_cancel = TRUE]
    ELSE tsk

\* A save that writes the table as it was before the change
SaveStale(mem, ok) ==
    IF ok
    THEN /\ file' = Serializable(schedules)
         /\ document' = "object"
         /\ persistFailed' = FALSE
    ELSE /\ UNCHANGED <<file, document>>
         /\ persistFailed' = TRUE

\* save_schedules: the write succeeds (ok) or raises, which is caught and logged
save_schedules(mem, ok) ==
    IF ok
    THEN /\ file' = Serializable(mem)
         /\ document' = "object"
         /\ persistFailed' = FALSE
    ELSE /\ UNCHANGED <<file, document>>
         /\ persistFailed' = TRUE

\* The event loop runs one coroutine at a time: nothing else runs while a
\* task is inside the blocking summarize_chat call.  The model follows the
\* process up to the return of shutdown_scheduler.
LoopFree == blocked = NoTask /\ shutdown # "returned"

\* task.cancel() makes the task ready at once, so the cancellation is
\* delivered before any callback that becomes ready later; until then the
\* task reads and writes nothing.  The model delivers it first.
Quiet == LoopFree /\ \A t \in Handles : ~tasks[t].must_cancel

\* ---------------------------------------------------------------- commands
Put(mem, c, rec) == [k \in DOMAIN mem \cup {c} |-> IF k = c THEN rec ELSE mem[k]]

\* A removal that deletes nothing
Keep(mem, c) == mem

Remove(mem, c) == [k \in DOMAIN mem \ {c} |-> mem[k]]

\* A lower limit that refuses the minimum itself
AtMostMinimum(i) == i <= MIN_INTERVAL

\* if interval_seconds < 60: ... if interval_seconds > 86400: ...
IntervalTooShort(i) == i < MIN_INTERVAL

IntervalTooLong(i) == i > MAX_INTERVAL

\* reply_text of a handler, or a log line written outside the job tasks
Say(m) == out' = [who |-> 0, what |-> m, data |-> NoData]

\* The step writes nothing
Silent == out' = NoOutput

\* An add that keeps the last_run of the record it replaces
KeepLastRun(chat_id, interval, user_id, ok) ==
    LET cancelled == CancelTaskOf(schedules, tasks, chat_id)
        task == NthFree(tasks, 1)
        rec == [interval |-> interval,
                last_run |-> IF chat_id \in DOMAIN schedules
                             THEN schedules[chat_id].last_run ELSE now,
                user_id |-> user_id, task |-> task]
    IN  /\ FreeHandles(tasks) # {}
        /\ schedules' = Put(schedules, chat_id, rec)
        /\ tasks' = [cancelled EXCEPT ![task] = NewTask(chat_id, interval, user_id)]
        /\ save_schedules(schedules', ok)

schedule_summarization(chat_id, interval, user_id, ok) ==
    LET cancelled == CancelTaskOf(schedules, tasks, chat_id)
        task == NthFree(tasks, 1)
        rec == [interval |-> interval, last_run |-> now, user_id |-> user_id,
                task |-> task]
    IN  /\ FreeHandles(tasks) # {}
        /\ schedules' = Put(schedules, chat_id, rec)
        /\ tasks' = [cancelled EXCEPT ![task] = NewTask(chat_id, interval, user_id)]
        /\ save_schedules(schedules', ok)

\* The reply of schedule_command when it returns before it asks for the
\* client, or "go"
ScheduleReject(args) ==
    IF Len(args) < 2 THEN "missing_args"
    ELSE IF ~IsInt(args[1]) THEN "invalid_chat_id"
    ELSE LET interval_seconds == parse_timestring(args[2])
         IN  IF interval_seconds = None \/ interval_seconds = 0 THEN "invalid_time"
             ELSE IF IntervalTooShort(interval_seconds) THEN "min_interval"
             ELSE IF IntervalTooLong(interval_seconds) THEN "max_interval"
             ELSE "go"

\* acc: what ensure_telethon_client() and client.get_entity(chat_id) give
schedule_command(u, args, acc, ok) ==
    /\ Quiet
    /\ LET why == ScheduleReject(args)
       IN  IF why # "go" \/ acc # "ok"
           THEN /\ Say(IF why # "go" THEN why
                       ELSE IF acc = "no_client" THEN "no_client" ELSE "no_access")
                /\ UNCHANGED <<schedules, file, document, tasks, persistFailed>>
           ELSE /\ schedule_summarization(ParseInt(args[1]), parse_timestring(args[2]), u, ok)
                /\ Say("scheduled")
    /\ UNCHANGED <<blocked, shutdown, now, telethon, openrouter>>

\* A removal that does not save
RemoveUnsaved(chat_id, ok) ==
    /\ chat_id \in DOMAIN schedules
    /\ tasks' = CancelTaskOf(schedules, tasks, chat_id)
    /\ schedules' = Remove(schedules, chat_id)
    /\ UNCHANGED <<file, document, persistFailed>>

\* remove_schedule: cancel the task, delete the record, save
remove_schedule(chat_id, ok) ==
    /\ chat_id \in DOMAIN schedules
    /\ tasks' = CancelTaskOf(schedules, tasks, chat_id)
    /\ schedules' = Remove(schedules, chat_id)
    /\ save_schedules(schedules', ok)

\* A check that lets every user remove
RemoveRejectNoOwner(u, args) ==
    IF Len(args) < 1 THEN "missing_args"
    ELSE IF ~IsInt(args[1]) THEN "invalid_chat_id"
    ELSE IF ParseInt(args[1]) \notin DOMAIN schedules THEN "not_found"
    ELSE "go"

\* The reply of remove_schedule_command when it returns before removing, or "go"
RemoveReject(u, args) ==
    IF Len(args) < 1 THEN "missing_args"
    ELSE IF ~IsInt(args[1]) THEN "invalid_chat_id"
    ELSE IF ParseInt(args[1]) \notin DOMAIN schedules THEN "not_found"
    ELSE IF Owner(schedules[ParseInt(args[1])]) # u THEN "no_permission"
    ELSE "go"

remove_schedule_command(u, args, ok) ==
    /\ Quiet
    /\ LET why == RemoveReject(u, args)
       IN  IF why # "go"
           THEN /\ Say(why)
                /\ UNCHANGED <<schedules, file, document, tasks, persistFailed>>
           ELSE /\ remove_schedule(ParseInt(args[1]), ok)
                /\ Say("removed")
    /\ UNCHANGED <<blocked, shutdown, now, telethon, openrouter>>

\* [(chat_id, {k: v for k, v in details.items() if k != 'task'}) ...]
get_all_schedules == {<<c, Details(schedules[c])>> : c \in DOMAIN schedules}

\* A filter that lets every schedule through
EverySchedule(u) == get_all_schedules

\* user_schedules: the entries with details.get('user_id') == user_id
UserSchedules(u) == {e \in get_all_schedules : Owner(e[2]) = u}

\* /list_schedule.  The reply is made from the copies get_all_schedules took
\* when the handler began: chat id, interval and last_run + interval of
\* each entry.  acc: what ensure_telethon_client() gives.
list_schedules_command(u, acc) ==
    /\ Quiet
    /\ IF UserSchedules(u) = {} THEN Say("no_schedules")
       ELSE IF acc = "no_client" THEN Say("no_client")
       ELSE out' = [who |-> 0, what |-> "listed", data |-> UserSchedules(u)]
    /\ UNCHANGED <<schedules, file, document, tasks, blocked, shutdown, now, telethon, openrouter, persistFailed>>

\* ---------------------------------------------- run_scheduled_summarization
\* Positions of a task: "new" (created, not yet run), "sleep" (line 110),
\* "client" (118), "entity" (124), "fetch" (137), "summarize" (144, blocking),
\* "send" (160), "cooldown" (178), "done".
Goto(t, pc) == tasks' = [tasks EXCEPT ![t].pc = pc]

\* logger.info / logger.warning / logger.error of task t
Log(t, line) == out' = [who |-> t, what |-> line, data |-> NoData]

\* A task that goes on after cancel() was called on it
RunsCancelled(t, pc) == LoopFree /\ tasks[t].pc = pc

\* A step of task t that is not the delivery of a cancellation
Runs(t, pc) ==
    /\ Quiet
    /\ tasks[t].pc = pc
    /\ ~tasks[t].must_cancel

\* A task that takes its record with it when it ends
FinishAndDrop(t) ==
    /\ tasks' = [tasks EXCEPT ![t] = Free]
    /\ schedules' = [c \in {d \in DOMAIN schedules : schedules[d].task # t} |-> schedules[c]]

\* The coroutine returns or raises: the task is done
Finish(t) ==
    /\ tasks' = [tasks EXCEPT ![t] = Free]
    /\ schedules' = [c \in DOMAIN schedules |->
                        IF schedules[c].task = t
                        THEN [schedules[c] EXCEPT !.task = NoTask]
                        ELSE schedules[c]]

\* A coroutine that returns at the end of a cycle
ReturnAfterCycle(t) == Goto(t, "done")

\* `continue`: back to `await asyncio.sleep(interval)` at the top of the loop
Continue(t) == Goto(t, "sleep")

\* An exception that leaves the coroutine: the task is done
Uncaught(t) == tasks' = [tasks EXCEPT ![t] = Free] /\ Log(t, "error")

\* except Exception: log, then `await asyncio.sleep(60)`
Caught(t) == Goto(t, "cooldown") /\ Log(t, "error")

\* How long the task sleeps where it is
SleepSeconds(t) ==
    IF tasks[t].pc = "sleep" THEN tasks[t].interval
    ELSE IF tasks[t].pc = "cooldown" THEN COOLDOWN
    ELSE 0

\* now - last_run >= interval for the record of task t
Overdue(t) ==
    /\ tasks[t].chat \in DOMAIN schedules
    /\ now - schedules[tasks[t].chat].last_run >= tasks[t].interval

\* A first step that runs a cycle at once when the schedule is overdue
CatchUp(t) == IF Overdue(t) THEN Goto(t, "client") ELSE Goto(t, "sleep")

\* The first run of the coroutine: up to `await asyncio.sleep(interval)`
FirstStep(t) == Goto(t, "sleep")

TaskStart(t) ==
    /\ Runs(t, "new")
    /\ FirstStep(t)
    /\ Silent
    /\ UNCHANGED <<schedules, file, document, blocked, shutdown, now, telethon, openrouter, persistFailed>>

\* CancelledError is thrown into the task at the await it is suspended in:
\* `except asyncio.CancelledError: break` logs and ends the loop.  From the
\* cooldown sleep the error leaves the coroutine, and a task cancelled
\* before its first step never runs; neither logs.
TaskCancelled(t) ==
    /\ LoopFree
    /\ ~Done(t)
    /\ tasks[t].must_cancel
    /\ Finish(t)
    /\ IF tasks[t].pc \in {"new", "cooldown"} THEN Silent ELSE Log(t, "cancelled")
    /\ UNCHANGED <<file, document, blocked, shutdown, now, telethon, openrouter, persistFailed>>

\* A task that does not look at the table when it wakes
NeverGone(t) == FALSE

\* chat_id not in schedules
ScheduleGone(t) == tasks[t].chat \notin DOMAIN schedules

\* if chat_id not in schedules: break
TaskWake(t) ==
    /\ Runs(t, "sleep")
    /\ IF ScheduleGone(t)
       THEN /\ Finish(t)
            /\ Log(t, "removed_stop")
       ELSE /\ Goto(t, "client")
            /\ Silent
            /\ UNCHANGED schedules
    /\ UNCHANGED <<file, document, blocked, shutdown, now, telethon, openrouter, persistFailed>>

\* client = await ensure_telethon_client(): a client, None, or an error of
\* init_telethon_client
TaskClient(t, r) ==
    /\ Runs(t, "client")
    /\ CASE r = "ok" -> Goto(t, "entity") /\ Silent
         [] r = "none" -> Continue(t) /\ Log(t, "no_client")
         [] r = "raise" -> Caught(t)
    /\ UNCHANGED <<schedules, file, document, blocked, shutdown, now, telethon, openrouter,
                   persistFailed>>

\* chat_entity = await client.get_entity(chat_id); an error is logged and
\* gives the title "Unknown Chat"
TaskEntity(t, r) ==
    /\ Runs(t, "entity")
    /\ Goto(t, "fetch")
    /\ IF r = "ok" THEN Silent ELSE Log(t, "title_error")
    /\ UNCHANGED <<schedules, file, document, blocked, shutdown, now, telethon, openrouter,
                   persistFailed>>

\* A task that tries again without sleeping
RetryAtOnce(t) == Goto(t, "client")

\* Where the task goes when get_chat_messages gave None or no message
AfterNoMessages(t) == Continue(t)

\* messages = await get_chat_messages(chat_id): None, [] or messages; with
\* messages the task enters summarize_chat, which blocks the thread
TaskFetch(t, r) ==
    /\ Runs(t, "fetch")
    /\ IF r = "messages"
       THEN /\ Goto(t, "summarize")
            /\ blocked' = t
            /\ Silent
       ELSE /\ AfterNoMessages(t)
            /\ Log(t, "no_messages")
            /\ UNCHANGED blocked
    /\ UNCHANGED <<schedules, file, document, shutdown, now, telethon, openrouter, persistFailed>>

\* summarize_chat returns: a text, or None / an empty text
TaskSummarized(t, r) ==
    /\ blocked = t
    /\ tasks[t].pc = "summarize"
    /\ IF r = "text"
       THEN Goto(t, "send") /\ Silent
       ELSE Continue(t) /\ Log(t, "no_summary")
    /\ blocked' = NoTask
    /\ UNCHANGED <<schedules, file, document, shutdown, now, telethon, openrouter, persistFailed>>

\* A task that records the time its schedule was made instead of the time
\* of the send
RecordsStartTime(t, ok) ==
    /\ schedules' = [schedules EXCEPT ![tasks[t].chat] = With(@, "last_run", 0)]
    /\ save_schedules(schedules', ok)

\* schedules[chat_id]['last_run'] = time.time(); save_schedules()
UpdateLastRun(t, ok) ==
    /\ schedules' = [schedules EXCEPT ![tasks[t].chat] = With(@, "last_run", now)]
    /\ save_schedules(schedules', ok)

\* A failed send that counts as a run
TelegramErrorCounted(t, ok) ==
    /\ Continue(t)
    /\ Log(t, "send_error")
    /\ IF tasks[t].chat \in DOMAIN schedules
       THEN UpdateLastRun(t, ok)
       ELSE UNCHANGED <<schedules, file, document, persistFailed>>

\* The send raised TelegramError: logged, nothing else
AfterTelegramError(t, ok) ==
    /\ Continue(t)
    /\ Log(t, "send_error")
    /\ UNCHANGED <<schedules, file, document, persistFailed>>

\* await telegram_bot.bot.send_message(...): sent, TelegramError, or another error
TaskSend(t, r, ok) ==
    /\ Runs(t, "send")
    /\ CASE r = "sent" ->
              IF tasks[t].chat \in DOMAIN schedules
              THEN /\ Continue(t)
                   /\ Log(t, "sent")
                   /\ UpdateLastRun(t, ok)
              ELSE /\ Caught(t)      \* KeyError
                   /\ UNCHANGED <<schedules, file, document, persistFailed>>
         [] r = "telegram_error" -> AfterTelegramError(t, ok)
         [] r = "error" ->
              /\ Caught(t)
              /\ UNCHANGED <<schedules, file, document, persistFailed>>
    /\ UNCHANGED <<blocked, shutdown, now, telethon, openrouter>>

\* the 60 seconds are over: the while loop starts again
TaskCooldownOver(t) ==
    /\ Runs(t, "cooldown")
    /\ Goto(t, "sleep")
    /\ Silent
    /\ UNCHANGED <<schedules, file, document, blocked, shutdown, now, telethon, openrouter, persistFailed>>

\* saves: the outcomes save_schedules can have (TRUE: written, FALSE: raised)
TaskStep(t, saves) ==
    \/ TaskStart(t)
    \/ TaskCancelled(t)
    \/ TaskWake(t)
    \/ \E r \in {"ok", "none", "raise"} : TaskClient(t, r)
    \/ \E r \in {"ok", "raise"} : TaskEntity(t, r)
    \/ \E r \in {"none", "empty", "messages"} : TaskFetch(t, r)
    \/ \E r \in {"text", "none"} : TaskSummarized(t, r)
    \/ \E r \in {"sent", "telegram_error", "error"}, ok \in saves : TaskSend(t, r, ok)
    \/ TaskCooldownOver(t)

\* ------------------------------------------------- startup and shutdown
\* A file is read whatever json.load makes of it
ReadsAnyText == \A k \in DOMAIN file : IsInt(k)

\* The file exists and the first loop of load_schedules,
\* loaded_schedules[int(chat_id_str)] = details over serialized_schedules.items(),
\* runs to its end: json.load gives an object and int() takes every key.
\* Otherwise load_schedules returns, or catches and logs the exception.
Loadable == document = "object" /\ \A k \in DOMAIN file : IsInt(k)

\* details['task'] = task
WithTask(details, task) == With(details, "task", task)

\* load_schedules: every entry of the file replaces the entry in memory as
\* it is, keeping the 'task' key of an entry that has one
load_schedules(mem) ==
    IF ~Loadable THEN mem
    ELSE [c \in DOMAIN mem \cup {ParseInt(k) : k \in DOMAIN file} |->
            IF \E k \in DOMAIN file : ParseInt(k) = c
            THEN WithTask(file[CHOOSE k \in DOMAIN file : ParseInt(k) = c],
                          IF c \in DOMAIN mem THEN mem[c].task ELSE NoTask)
            ELSE mem[c]]

\* Position of chat c in list(schedules.items()), taken in increasing chat_id
Rank(c, S) == Cardinality({d \in S : d <= c})

\* The entries start_scheduler creates a task for:
\* if 'interval' in details and 'user_id' in details
ToStart(mem) ==
    {c \in DOMAIN mem : "interval" \in DOMAIN mem[c] /\ "user_id" \in DOMAIN mem[c]}

\* for chat_id, details in list(schedules.items()): create_task(...);
\* schedules[chat_id]['task'] = task
StartTasks(mem, tsk) ==
    LET S == ToStart(mem)
        handle(c) == NthFree(tsk, Rank(c, S))
    IN  [schedules |-> [c \in DOMAIN mem |->
                           IF c \in S THEN [mem[c] EXCEPT !.task = handle(c)] ELSE mem[c]],
         tasks |-> [t \in Handles |->
                      IF \E c \in S : handle(c) = t
                      THEN LET c == CHOOSE d \in S : handle(d) = t
                           IN  NewTask(c, mem[c].interval, mem[c].user_id)
                      ELSE tsk[t]]]

start_scheduler ==
    /\ Quiet
    /\ LET mem == load_schedules(schedules)
       IN  /\ Cardinality(ToStart(mem)) <= Cardinality(FreeHandles(tasks))
           /\ schedules' = StartTasks(mem, tasks).schedules
           /\ tasks' = StartTasks(mem, tasks).tasks
    /\ Say("initialized")
    /\ UNCHANGED <<file, document, blocked, shutdown, now, telethon, openrouter, persistFailed>>

\* The tasks shutdown_scheduler calls cancel() on
ToCancel == {t \in Handles : ~Done(t) /\ \E c \in DOMAIN schedules : schedules[c].task = t}

\* shutdown_scheduler up to `await asyncio.sleep(1)`
ShutdownBegin ==
    /\ Quiet
    /\ shutdown = "idle"
    /\ tasks' = [t \in Handles |->
                   IF t \in ToCancel THEN [tasks[t] EXCEPT !.must_cancel = TRUE] ELSE tasks[t]]
    /\ shutdown' = "waiting"
    /\ Say("all_cancelled")
    /\ UNCHANGED <<schedules, file, document, blocked, now, telethon, openrouter, persistFailed>>

\* The second is over.  The tasks cancelled before the sleep began were
\* made ready before its timer and have run their cancellation by then.
ShutdownReturn ==
    /\ Quiet
    /\ shutdown = "waiting"
    /\ shutdown' = "returned"
    /\ Silent
    /\ UNCHANGED <<schedules, file, document, tasks, blocked, now, telethon, openrouter, persistFailed>>

\* The process ends and is started again: memory and tasks are gone, the
\* file stays, and start_bot calls start_scheduler before polling begins.
Restart ==
    /\ LET mem == load_schedules(EmptyMap)
           none == [t \in Handles |-> Free]
       IN  /\ Cardinality(ToStart(mem)) <= MaxTasks
           /\ schedules' = StartTasks(mem, none).schedules
           /\ tasks' = StartTasks(mem, none).tasks
    /\ blocked' = NoTask
    /\ shutdown' = "idle"
    /\ Say("initialized")
    /\ persistFailed' = FALSE
    /\ UNCHANGED <<file, document, now, telethon, openrouter>>

\* The clock is read once every Quantum seconds
Quantum == MIN_INTERVAL

Tick ==
    /\ now < MaxTime * Quantum
    /\ now' = now + Quantum
    /\ Silent
    /\ UNCHANGED <<schedules, file, document, tasks, blocked, shutdown, persistFailed, telethon,
                   openrouter>>

\* ------------------------------------------------ utils/telethon_client.py
\* max_retries=3
MAX_RETRIES == 3

\* retry_delay=2
RETRY_DELAY == 2

\* The coroutines that may be inside ensure_telethon_client or
\* init_telethon_client at the same time
Callers == {1, 2}

\* telethon_client = None
NoClient == 0

\* A caller that is in neither function
Idle ==
    [fn |-> "none", pc |-> "idle", guarded |-> FALSE, attempt |-> 0, starts |-> 0,
     waited |-> 0, on |-> NoClient, result |-> NoClient]

\* The module before the first call.  configured: API_ID and API_HASH are set
Unset(configured) ==
    [configured |-> configured, telethon_client |-> NoClient, made |-> 0,
     connected |-> {}, calls |-> [k \in Callers |-> Idle]]

\* `return v` of the function the caller called
Return(tc, k, v) ==
    [tc EXCEPT !.calls[k].pc = "returned", !.calls[k].result = v, !.calls[k].on = NoClient]

\* An exception leaves init_telethon_client: inside the second try of
\* ensure_telethon_client it is logged and None is returned, otherwise it
\* goes on to the caller
Raise(tc, k) ==
    IF tc.calls[k].guarded
    THEN Return(tc, k, NoClient)
    ELSE [tc EXCEPT !.calls[k].pc = "raised", !.calls[k].on = NoClient]

\* telethon_client = TelegramClient(str(session_file), int(API_ID), API_HASH)
NewClient(tc) == [tc EXCEPT !.made = @ + 1, !.telethon_client = tc.made + 1]

\* await telethon_client.<method>(): the method is called on the object the
\* global names at this moment
Await(tc, k, pc) == [tc EXCEPT !.calls[k].pc = pc, !.calls[k].on = tc.telethon_client]

\* while attempt < max_retries: await telethon_client.start(); leaving the
\* loop by its condition, the function ends without a return statement
NextAttempt(tc, k) ==
    IF tc.calls[k].attempt < MAX_RETRIES
    THEN [Await(tc, k, "start") EXCEPT !.calls[k].starts = @ + 1]
    ELSE Return(tc, k, NoClient)

\* init_telethon_client, up to its first await
init_telethon_client(tc, k) ==
    IF ~tc.configured THEN Raise(tc, k)      \* ValueError
    ELSE IF tc.telethon_client # NoClient /\ tc.telethon_client \in tc.connected
    THEN Return(tc, k, tc.telethon_client)
    ELSE NextAttempt([NewClient(tc) EXCEPT !.calls[k].attempt = 0,
                                           !.calls[k].starts = 0,
                                           !.calls[k].waited = 0], k)

\* A retry after the last attempt as well
RetriesLeftOrLast(attempt) == attempt <= MAX_RETRIES

\* if attempt < max_retries
RetriesLeft(attempt) == attempt < MAX_RETRIES

\* except Exception as e: attempt += 1; a new client on "database is
\* locked"; then the sleep before the next attempt, or raise last_error
Failed(tc, k, locked) ==
    LET counted == [tc EXCEPT !.calls[k].attempt = @ + 1]
        t == IF locked THEN NewClient(counted) ELSE counted
    IN  IF RetriesLeft(t.calls[k].attempt)
        THEN [t EXCEPT !.calls[k].pc = "retry_sleep", !.calls[k].on = NoClient]
        ELSE Raise(t, k)

\* ensure_telethon_client, up to its first await
ensure_telethon_client(tc, k) ==
    IF tc.telethon_client = NoClient THEN init_telethon_client(tc, k)
    ELSE IF tc.telethon_client \notin tc.connected THEN Await(tc, k, "connect")
    ELSE Return(tc, k, tc.telethon_client)

\* except Exception: try: return await init_telethon_client()
\* except Exception: return None
Reinitialize(tc, k) == init_telethon_client([tc EXCEPT !.calls[k].guarded = TRUE], k)

Entered(k, fn) == [telethon EXCEPT !.calls[k] = [Idle EXCEPT !.fn = fn]]

\* client = await ensure_telethon_client()
EnsureCall(k) ==
    /\ telethon.calls[k].pc = "idle"
    /\ telethon' = ensure_telethon_client(Entered(k, "ensure"), k)
    /\ telethon'.made <= MaxClients
    /\ UNCHANGED <<schedules, file, document, tasks, blocked, shutdown, now, out, persistFailed,
                   openrouter>>

\* await init_telethon_client() of start_bot
InitCall(k) ==
    /\ telethon.calls[k].pc = "idle"
    /\ telethon' = init_telethon_client(Entered(k, "init"), k)
    /\ telethon'.made <= MaxClients
    /\ UNCHANGED <<schedules, file, document, tasks, blocked, shutdown, now, out, persistFailed,
                   openrouter>>

Outcomes == {"ok", "error", "locked"}

\* await telethon_client.start() returns or raises; "locked": the message of
\* the error has "database is locked"
StartDone(k, r) ==
    /\ telethon.calls[k].pc = "start"
    /\ telethon' =
          IF r = "ok"
          THEN Await([telethon EXCEPT !.connected = @ \cup {telethon.calls[k].on}], k, "get_me")
          ELSE Failed(telethon, k, r = "locked")
    /\ telethon'.made <= MaxClients
    /\ UNCHANGED <<schedules, file, document, tasks, blocked, shutdown, now, out, persistFailed,
                   openrouter>>

\* await telethon_client.get_me() returns or raises; it returns only on a
\* connected client.  return telethon_client
GetMeDone(k, r) ==
    /\ telethon.calls[k].pc = "get_me"
    /\ r = "ok" => telethon.calls[k].on \in telethon.connected
    /\ telethon' =
          IF r = "ok"
          THEN Return(telethon, k, telethon.telethon_client)
          ELSE Failed(telethon, k, r = "locked")
    /\ telethon'.made <= MaxClients
    /\ UNCHANGED <<schedules, file, document, tasks, blocked, shutdown, now, out, persistFailed,
                   openrouter>>

\* await asyncio.sleep(retry_delay) is over
RetryDelayOver(k) ==
    /\ telethon.calls[k].pc = "retry_sleep"
    /\ telethon' = NextAttempt([telethon EXCEPT !.calls[k].waited = @ + RETRY_DELAY], k)
    /\ UNCHANGED <<schedules, file, document, tasks, blocked, shutdown, now, out, persistFailed,
                   openrouter>>

\* await telethon_client.connect() returns or raises
ConnectDone(k, r) ==
    /\ telethon.calls[k].pc = "connect"
    /\ telethon' =
          IF r = "ok"
          THEN Await([telethon EXCEPT !.connected = @ \cup {telethon.calls[k].on}], k, "verify")
          ELSE Reinitialize(telethon, k)
    /\ telethon'.made <= MaxClients
    /\ UNCHANGED <<schedules, file, document, tasks, blocked, shutdown, now, out, persistFailed,
                   openrouter>>

\* await telethon_client.get_me() of ensure_telethon_client returns or raises
VerifyDone(k, r) ==
    /\ telethon.calls[k].pc = "verify"
    /\ r = "ok" => telethon.calls[k].on \in telethon.connected
    /\ telethon' =
          IF r = "ok"
          THEN Return(telethon, k, telethon.telethon_client)
          ELSE Reinitialize(telethon, k)
    /\ telethon'.made <= MaxClients
    /\ UNCHANGED <<schedules, file, document, tasks, blocked, shutdown, now, out, persistFailed,
                   openrouter>>

\* The connection to Telegram is lost: is_connected() is False again
ConnectionLost ==
    /\ telethon.connected # {}
    /\ telethon' = [telethon EXCEPT !.connected = {}]
    /\ UNCHANGED <<schedules, file, document, tasks, blocked, shutdown, now, out, persistFailed,
                   openrouter>>

\* The caller goes on with what it was given and may call again later
CallOver(k) ==
    /\ telethon.calls[k].pc \in {"returned", "raised"}
    /\ telethon' = [telethon EXCEPT !.calls[k] = Idle]
    /\ UNCHANGED <<schedules, file, document, tasks, blocked, shutdown, now, out, persistFailed,
                   openrouter>>

\* get_chat_messages(chat_id, limit, max_chars).  history: the messages of
\* the chat, newest first, each a sender name and a text ("" for a message
\* without text); client: what ensure_telethon_client() does ("ok", "none",
\* "raise"); failAt: the collaborator call that raises, 0 for
\* get_entity, i for get_sender of message i, None for none.
\* f"{sender_name}: {msg_text}"
Entry(message) == message.sender \o <<":", " ">> \o message.text

\* async for message in client.iter_messages(chat_id, limit=limit): from
\* message i on, with the entries and the total length so far
RECURSIVE Collect(_, _, _, _, _, _)
Collect(history, i, limit, max_chars, failAt, sofar) ==
    IF i > Len(history) \/ i > limit THEN <<"list", sofar.messages>>
    ELSE IF history[i].text = << >>
    THEN Collect(history, i + 1, limit, max_chars, failAt, sofar)
    ELSE IF failAt = i THEN <<"None">>
    ELSE LET messages == Append(sofar.messages, Entry(history[i]))
             total_length == sofar.total_length + Len(history[i].text)
         IN  IF total_length > max_chars
             THEN <<"list", messages>>
             ELSE Collect(history, i + 1, limit, max_chars, failAt,
                          [messages |-> messages, total_length |-> total_length])

get_chat_messages(client, history, limit, max_chars, failAt) ==
    IF client = "raise" THEN <<"raise">>
    ELSE IF client = "none" THEN <<"None">>
    ELSE IF failAt = 0 THEN <<"None">>
    ELSE Collect(history, 1, limit, max_chars, failAt, [messages |-> << >>, total_length |-> 0])

\* ------------------------------------------------------ utils/openrouter.py
\* The values an API key can have
KeyValues == {"a", "b"}

\* OpenRouterClient(api_keys): self.api_keys in the order random.shuffle
\* left them, current_key_index = 0; no call of chat_completion is running
OpenRouterClient(api_keys) ==
    [api_keys |-> api_keys, current_key_index |-> 0, pc |-> "idle",
     initial_key_index |-> 0, tried_keys |-> {}, requests |-> 0, result |-> "none"]

\* self.current_key_index = (self.current_key_index + 1) % len(self.api_keys)
get_next_api_key(oc) ==
    [oc EXCEPT !.current_key_index = (@ + 1) % Len(oc.api_keys)]

\* while len(tried_keys) < len(self.api_keys):
\*     current_key = self.api_keys[self.current_key_index]
\*     tried_keys.add(current_key); ... requests.post(...)
\* self.current_key_index = initial_key_index; return None
TryNextKey(oc) ==
    IF Cardinality(oc.tried_keys) < Len(oc.api_keys)
    THEN [oc EXCEPT !.tried_keys = @ \cup {oc.api_keys[oc.current_key_index + 1]},
                    !.pc = "request"]
    ELSE [oc EXCEPT !.current_key_index = oc.initial_key_index,
                    !.result = "None", !.pc = "returned"]

\* chat_completion(message), up to its first request
ChatCompletionCall ==
    /\ openrouter.pc = "idle"
    /\ openrouter' = TryNextKey([openrouter EXCEPT
                                    !.initial_key_index = openrouter.current_key_index,
                                    !.tried_keys = {}, !.requests = 0, !.result = "none"])
    /\ UNCHANGED <<schedules, file, document, tasks, blocked, shutdown, now, out, persistFailed,
                   telethon>>

\* What a request gives: a non-empty content, no choice or an empty
\* content, or an exception (of the request, of raise_for_status, of the
\* JSON)
Responses == {"content", "empty", "error"}

\* requests.post(...) has returned or raised
Responded(r) ==
    /\ openrouter.pc = "request"
    /\ openrouter.requests < MaxRequests
    /\ openrouter' =
          LET counted == [openrouter EXCEPT !.requests = @ + 1]
          IN  IF r = "content"
              THEN [counted EXCEPT !.result = "text", !.pc = "returned"]
              ELSE TryNextKey(get_next_api_key(counted))
    /\ UNCHANGED <<schedules, file, document, tasks, blocked, shutdown, now, out, persistFailed,
                   telethon>>

\* summarize_chat has its answer; the client is kept for the next call
CompletionOver ==
    /\ openrouter.pc = "returned"
    /\ openrouter' = [openrouter EXCEPT !.pc = "idle"]
    /\ UNCHANGED <<schedules, file, document, tasks, blocked, shutdown, now, out, persistFailed,
                   telethon>>

\* ------------------------------------------------------------ specification
Init ==
    /\ schedules = EmptyMap
    /\ file = EmptyMap
    /\ document = "object"
    /\ tasks = [t \in Handles |-> Free]
    /\ blocked = NoTask
    /\ shutdown = "idle"
    /\ now = 0
    /\ out = NoOutput
    /\ persistFailed = FALSE
    /\ telethon = Unset(TRUE)
    /\ openrouter = OpenRouterClient(<<"a">>)

\* What the users type after /schedule and /remove_schedule
S60 == <<"6", "0", "s">>

ChatTokens == {IntStr(c) : c \in Chats}

ScheduleArgs == {<<c, S60>> : c \in ChatTokens}

RemoveArgs == {<<c>> : c \in ChatTokens}

Written == {TRUE}

\* One run of the bot after another, the disk healthy: commands of one user
\* on two chats, the job tasks, the clock, shutdown, and the next start.
Next ==
    \/ \E args \in ScheduleArgs : schedule_command(7, args, "ok", TRUE)
    \/ \E args \in RemoveArgs : remove_schedule_command(7, args, TRUE)
    \/ \E t \in Handles : TaskStep(t, Written)
    \/ ShutdownBegin
    \/ ShutdownReturn
    \/ Restart
    \/ Tick

Spec == Init /\ [][Next]_vars

\* The same with a disk that may fail at any save, and no shutdown.
NextFault ==
    \/ \E args \in ScheduleArgs, ok \in BOOLEAN : schedule_command(7, args, "ok", ok)
    \/ \E args \in RemoveArgs, ok \in BOOLEAN : remove_schedule_command(7, args, ok)
    \/ \E t \in Handles : TaskStep(t, BOOLEAN)
    \/ Restart
    \/ Tick

SpecFault == Init /\ [][NextFault]_vars

\* One run in which start_scheduler may be called at any time.
NextStart ==
    \/ \E args \in ScheduleArgs : schedule_command(7, args, "ok", TRUE)
    \/ \E args \in RemoveArgs : remove_schedule_command(7, args, TRUE)
    \/ \E t \in Handles : TaskStep(t, Written)
    \/ start_scheduler

SpecStart == Init /\ [][NextStart]_vars

\* Two users on two chats, every way a /remove_schedule can be refused, and a
\* disk that may fail when a schedule is removed.
UserRemoveArgs == RemoveArgs \cup {<< >>, << <<"x">> >>}

NextUsers ==
    \/ \E u \in Users, args \in ScheduleArgs : schedule_command(u, args, "ok", TRUE)
    \/ \E u \in Users, args \in UserRemoveArgs, ok \in BOOLEAN :
          remove_schedule_command(u, args, ok)
    \/ \E u \in Users, acc \in {"ok", "no_client"} : list_schedules_command(u, acc)
    \/ \E t \in Handles : TaskStep(t, Written)

SpecUsers == Init /\ [][NextUsers]_vars

\* One user on one chat, every way a /schedule can be refused.  "24H" is a
\* day (86400 seconds).
TimeStrings ==
    {S60, <<"5", "9", "s">>, <<"2", "4", "H">>, <<"8", "6", "4", "0", "1", "s">>,
     <<"0", "m">>, <<"1", "h", "x">>}

Access == {"ok", "no_client", "no_entity"}

UserScheduleArgs ==
    {<< <<"1">>, ts >> : ts \in TimeStrings} \cup {<< <<"1">> >>, << <<"x">>, S60 >>}

NextAdd ==
    \/ \E args \in UserScheduleArgs, acc \in Access :
          schedule_command(7, args, acc, TRUE)
    \/ remove_schedule_command(7, << <<"1">> >>, TRUE)
    \/ \E t \in Handles : TaskStep(t, Written)

SpecAdd == Init /\ [][NextAdd]_vars

\* Two users on one chat, a minute and a day as intervals: a schedule is
\* replaced by one of another interval or of another user, removed, run,
\* and loaded again by a new process.
OwnerArgs == {<< <<"1">>, S60 >>, << <<"1">>, <<"2", "4", "H">> >>}

NextOwner ==
    \/ \E u \in Users, args \in OwnerArgs : schedule_command(u, args, "ok", TRUE)
    \/ \E u \in Users : remove_schedule_command(u, << <<"1">> >>, TRUE)
    \/ \E t \in Handles : TaskStep(t, Written)
    \/ Restart

SpecOwner == Init /\ [][NextOwner]_vars

\* Schedules that are made once and never removed or replaced, no shutdown,
\* and every call of a cycle succeeds.  The event loop runs its ready
\* callbacks in turn and the sleeps, the calls and summarize_chat return:
\* a task that can take a step again and again takes it.
TaskStepOk(t) ==
    \/ TaskStart(t)
    \/ TaskWake(t)
    \/ TaskClient(t, "ok")
    \/ TaskEntity(t, "ok")
    \/ TaskFetch(t, "messages")
    \/ TaskSummarized(t, "text")
    \/ TaskSend(t, "sent", TRUE)

NextLive ==
    \/ \E args \in ScheduleArgs :
          /\ ParseInt(args[1]) \notin DOMAIN schedules
          /\ schedule_command(7, args, "ok", TRUE)
    \/ \E t \in Handles : TaskStepOk(t)
    \/ Tick

SpecLive == Init /\ [][NextLive]_vars /\ \A t \in Handles : SF_vars(TaskStepOk(t))

\* parse_timestring and format_time_interval alone: one call, on any input
\* of a bounded set; the step writes the argument and the result.
TimeChars == {"0", "1", "5", "s", "m", "h", "H", "x", "-", " ", "\n"}

\* "  Time format examples: 5m, 30m, 1h, 2h30m, 1800s"
HelpExamples ==
    {<<"5", "m">>, <<"3", "0", "m">>, <<"1", "h">>, <<"2", "h", "3", "0", "m">>,
     <<"1", "8", "0", "0", "s">>}

TimeInputs ==
    UNION {[1..n -> TimeChars] : n \in 0..MaxLen}
        \cup HelpExamples
        \cup {<<"2", "h">>, <<"1", "2", "0", "0", "s">>, <<"2", "h", " ", "3", "0", "m">>}

Seconds == 0..MaxSeconds \cup {7200, 9000, MAX_INTERVAL, 90000}

ParseCall(s) ==
    /\ out = NoOutput
    /\ out' = [who |-> 0, what |-> "parse_timestring", data |-> <<s, parse_timestring(s)>>]
    /\ UNCHANGED <<schedules, file, document, tasks, blocked, shutdown, now, telethon, openrouter, persistFailed>>

FormatCall(n) ==
    /\ out = NoOutput
    /\ out' = [who |-> 0, what |-> "format_time_interval",
               data |-> <<n, format_time_interval(n)>>]
    /\ UNCHANGED <<schedules, file, document, tasks, blocked, shutdown, now, telethon, openrouter, persistFailed>>

NextTime ==
    \/ \E s \in TimeInputs : ParseCall(s)
    \/ \E n \in Seconds : FormatCall(n)

SpecTime == Init /\ [][NextTime]_vars

\* The table and its file alone: any table of up to three schedules, with
\* and without task handles, is saved and then loaded by a new process.
StoreChats == {-3, 0, 12}

StoreRecords == [interval : {MIN_INTERVAL, MAX_INTERVAL}, last_run : {0, 60}, user_id : Users]

InitStore ==
    /\ \E D \in SUBSET StoreChats :
         \E T \in SUBSET D, recs \in [D -> StoreRecords] :
            /\ schedules = [c \in D |->
                               WithTask(recs[c], IF c \in T THEN Rank(c, T) ELSE NoTask)]
            /\ tasks = [t \in Handles |->
                           IF \E c \in T : Rank(c, T) = t
                           THEN LET c == CHOOSE d \in T : Rank(d, T) = t
                                IN  NewTask(c, recs[c].interval, recs[c].user_id)
                           ELSE Free]
    /\ file = EmptyMap
    /\ document = "missing"
    /\ blocked = NoTask
    /\ shutdown = "idle"
    /\ now = 0
    /\ out = NoOutput
    /\ persistFailed = FALSE
    /\ telethon = Unset(TRUE)
    /\ openrouter = OpenRouterClient(<<"a">>)

\* save_schedules() and the line it logs
SaveCall(ok) ==
    /\ save_schedules(schedules, ok)
    /\ Say(IF ok THEN "saved" ELSE "save_error")
    /\ UNCHANGED <<schedules, tasks, blocked, shutdown, now, telethon, openrouter>>

\* The line load_schedules logs
LoadLine ==
    IF document = "missing" THEN "no_file"
    ELSE IF Loadable THEN "loaded"
    ELSE "load_error"

\* load_schedules() in a process that has just started: no record, no task
LoadCall ==
    /\ schedules' = load_schedules(EmptyMap)
    /\ tasks' = [t \in Handles |-> Free]
    /\ Say(LoadLine)
    /\ UNCHANGED <<file, document, blocked, shutdown, now, telethon, openrouter, persistFailed>>

NextStore ==
    \/ \E ok \in BOOLEAN : SaveCall(ok)
    \/ LoadCall

SpecStore == InitStore /\ [][NextStore]_vars

\* The bot is started on whatever is found in data/schedules.json: no file,
\* text that is no JSON, JSON that is no object, an object with a key that
\* is no integer, and objects with entries that lack keys.
GoodEntry == [interval |-> MIN_INTERVAL, last_run |-> 0, user_id |-> 7]

NoOwnerEntry == [interval |-> MIN_INTERVAL, last_run |-> 0]

NoLastRunEntry == [interval |-> MIN_INTERVAL, user_id |-> 7]

OneEntry == [k \in {<<"1">>} |-> GoodEntry]

Found ==
    {<<"missing", EmptyMap>>,
     <<"garbage", OneEntry>>,
     <<"array", EmptyMap>>,
     <<"object", OneEntry>>,
     <<"object", [k \in {<<"1">>, <<"x">>} |-> GoodEntry]>>,
     <<"object", [k \in {<<"1">>, <<"2">>} |-> IF k = <<"1">> THEN GoodEntry ELSE NoOwnerEntry]>>,
     <<"object", [k \in {<<"2">>} |-> NoLastRunEntry]>>}

\* Somebody puts a file in the place of data/schedules.json, or deletes it
PlaceFile(f) ==
    /\ document' = f[1]
    /\ file' = f[2]
    /\ Silent
    /\ UNCHANGED <<schedules, tasks, blocked, shutdown, now, telethon, openrouter, persistFailed>>

NextDisk ==
    \/ \E f \in Found : PlaceFile(f)
    \/ Restart
    \/ \E args \in ScheduleArgs : schedule_command(7, args, "ok", TRUE)
    \/ \E args \in RemoveArgs : remove_schedule_command(7, args, TRUE)
    \/ \E t \in Handles : TaskStep(t, Written)

SpecDisk == Init /\ [][NextDisk]_vars

\* init_telethon_client alone, as start_bot calls it: one caller, every
\* outcome of start() and get_me(), with and without API_ID and API_HASH.
InitTelethon ==
    /\ schedules = EmptyMap
    /\ file = EmptyMap
    /\ document = "object"
    /\ tasks = [t \in Handles |-> Free]
    /\ blocked = NoTask
    /\ shutdown = "idle"
    /\ now = 0
    /\ out = NoOutput
    /\ persistFailed = FALSE
    /\ \E configured \in BOOLEAN : telethon = Unset(configured)
    /\ openrouter = OpenRouterClient(<<"a">>)

NextInit ==
    \/ InitCall(1)
    \/ \E r \in Outcomes : StartDone(1, r)
    \/ \E r \in Outcomes : GetMeDone(1, r)
    \/ RetryDelayOver(1)
    \/ ConnectionLost
    \/ CallOver(1)

SpecInit == InitTelethon /\ [][NextInit]_vars

\* Two coroutines (job tasks that wake together, command handlers) that call
\* ensure_telethon_client, each resumed when its await is over.
NextClient ==
    \/ \E k \in Callers : EnsureCall(k)
    \/ \E k \in Callers, r \in Outcomes : StartDone(k, r)
    \/ \E k \in Callers, r \in Outcomes : GetMeDone(k, r)
    \/ \E k \in Callers : RetryDelayOver(k)
    \/ \E k \in Callers, r \in {"ok", "error"} : ConnectDone(k, r)
    \/ \E k \in Callers, r \in {"ok", "error"} : VerifyDone(k, r)
    \/ ConnectionLost
    \/ \E k \in Callers : CallOver(k)

SpecClient == InitTelethon /\ [][NextClient]_vars

\* chat_completion on a client with any list of one to MaxKeys keys, a key
\* value more than once or not, and any outcome of each request.
InitKeys ==
    /\ schedules = EmptyMap
    /\ file = EmptyMap
    /\ document = "object"
    /\ tasks = [t \in Handles |-> Free]
    /\ blocked = NoTask
    /\ shutdown = "idle"
    /\ now = 0
    /\ out = NoOutput
    /\ persistFailed = FALSE
    /\ telethon = Unset(TRUE)
    /\ \E n \in 1..MaxKeys : \E api_keys \in [1..n -> KeyValues] :
          openrouter = OpenRouterClient(api_keys)

NextKeys ==
    \/ ChatCompletionCall
    \/ \E r \in Responses : Responded(r)
    \/ CompletionOver

SpecKeys == InitKeys /\ [][NextKeys]_vars

\* get_chat_messages alone: one call, on any history of up to MaxMessages
\* messages, any limit and max_chars, any client and any failure; the step
\* writes the arguments and the result.
Texts == UNION {[1..n -> {"a"}] : n \in 0..MaxChars}

Histories ==
    UNION {[1..n -> [sender : {<<"U">>}, text : Texts]] : n \in 0..MaxMessages}

FetchCall(client, history, limit, max_chars, failAt) ==
    /\ out = NoOutput
    /\ out' = [who |-> 0, what |-> "get_chat_messages",
               data |-> <<client, history, limit, max_chars, failAt,
                          get_chat_messages(client, history, limit, max_chars, failAt)>>]
    /\ UNCHANGED <<schedules, file, document, tasks, blocked, shutdown, now, persistFailed,
                   telethon, openrouter>>

NextFetch ==
    \E client \in {"ok", "none", "raise"}, history \in Histories,
       limit \in 1..MaxMessages, max_chars \in 0..MaxChars,
       failAt \in {None} \cup 0..MaxMessages :
        FetchCall(client, history, limit, max_chars, failAt)

SpecFetch == Init /\ [][NextFetch]_vars

\* ------------------------------------------------------------------ claims
\* The step is one of a handler or of the scheduler outside the job tasks:
\* every such step writes a reply or a log line.
HandlerWrote == out'.who = 0 /\ out'.what # "none"

\* C1: at every moment each chat_id has at most one live job task (spawned,
\* not terminated, no cancel request pending), whatever the interleaving of
\* adds, removes, start_scheduler, shutdown_scheduler and task steps.
\* start_scheduler creates a task for every record and overwrites the handle
\* of a task that is still running, so this fails under SpecStart.
OneLiveTaskPerChat == \A c \in Chats : Cardinality(LiveTasksOf(c)) <= 1

\* C2: while the task of one chat is held up inside its summarize step, the
\* task of another chat whose sleep is over can take its next step.
\* summarize_chat is a blocking call on the loop's thread, so this fails.
StallDoesNotBlock ==
    \A a \in Handles, b \in Handles :
        (/\ tasks[a].pc = "summarize"
         /\ tasks[b].pc = "sleep"
         /\ tasks[b].chat # tasks[a].chat
         /\ ~tasks[b].must_cancel
         /\ shutdown # "returned")
        => ENABLED TaskWake(b)

\* C3: /remove_schedule of a chat without a record answers "not found"; of a
\* record of another user it answers "no permission", a different answer,
\* and record, task and file stay as they are; of the user's own record it
\* cancels the task and deletes the record, and, unless save_schedules
\* failed, the record is not in the file either.
RemoveOutcome(u, args, mayStay) ==
    LET c == ParseInt(args[1])
    IN  IF c \notin DOMAIN schedules
        THEN /\ out'.what = "not_found"
             /\ UNCHANGED <<schedules, tasks, file, document>>
        ELSE IF schedules[c].user_id # u
        THEN /\ out'.what = "no_permission"
             /\ UNCHANGED <<schedules, tasks, file, document>>
        ELSE /\ out'.what = "removed"
             /\ c \notin DOMAIN schedules'
             /\ \A t \in LiveTasksOf(c) : tasks'[t].must_cancel
             /\ mayStay \/ IntStr(c) \notin DOMAIN file'

RemoveByOwnerOnly ==
    [][HandlerWrote =>
          \A u \in Users, args \in RemoveArgs, ok \in BOOLEAN :
              remove_schedule_command(u, args, ok) =>
                  RemoveOutcome(u, args, persistFailed')]_vars

\* C3 as stated: after the owner's removal no record is left in the file,
\* whatever save_schedules did.
RemoveLeavesNoRecordInFile ==
    [][HandlerWrote =>
          \A u \in Users, args \in RemoveArgs, ok \in BOOLEAN :
              remove_schedule_command(u, args, ok) => RemoveOutcome(u, args, FALSE)]_vars

\* A user was refused the removal of the schedule of another user, which is
\* still there with its task.
RemovalRefused ==
    /\ out.what = "no_permission"
    /\ \E c \in DOMAIN schedules :
          /\ schedules[c].user_id = 8
          /\ schedules[c].task # NoTask
          /\ IntStr(c) \in DOMAIN file

\* C4: /schedule makes a schedule exactly when the arguments are well
\* formed, the chat can be reached and 60 <= interval <= 86400 ("59s" and
\* "86401s" are refused, "60s" and "24H" accepted); a refused /schedule
\* leaves records, file and tasks as they are; no record ever has an
\* interval outside 60..86400.
AddOutcome(args, acc) ==
    LET i == IF Len(args) = 2 THEN parse_timestring(args[2]) ELSE None
    IN  IF Len(args) = 2 /\ IsInt(args[1]) /\ acc = "ok" /\ i >= 60 /\ i <= 86400
        THEN /\ out'.what = "scheduled"
             /\ ParseInt(args[1]) \in DOMAIN schedules'
             /\ schedules'[ParseInt(args[1])].interval = i
             /\ args[2] \in {S60, <<"2", "4", "H">>}
        ELSE /\ out'.what # "scheduled"
             /\ UNCHANGED <<schedules, file, document, tasks>>
             /\ args \in {<< <<"1">>, <<"5", "9", "s">> >>,
                           << <<"1">>, <<"8", "6", "4", "0", "1", "s">> >>}
                   => out'.what \in {"min_interval", "max_interval"}

AddOnlyInRange ==
    /\ [](\A c \in DOMAIN schedules :
             schedules[c].interval >= 60 /\ schedules[c].interval <= 86400)
    /\ [][\A args \in UserScheduleArgs, acc \in Access :
             schedule_command(7, args, acc, TRUE) => AddOutcome(args, acc)]_vars

\* A /schedule of 86401 seconds was refused and the schedule of a day made
\* before is still there.
DayAcceptedLongerRefused ==
    /\ out.what = "max_interval"
    /\ 1 \in DOMAIN schedules
    /\ schedules[1].interval = 86400

\* C5: a /schedule that succeeds leaves one record for the chat, with the
\* given interval, last_run the time of the add and the user as owner, in
\* place of any earlier record; the records of the other chats stay as they
\* are; and, unless save_schedules failed, the file holds the same record.
AddRecord(u, args, inFile) ==
    LET c == ParseInt(args[1])
        rec == [interval |-> parse_timestring(args[2]), last_run |-> now, user_id |-> u]
    IN  /\ DOMAIN schedules' = DOMAIN schedules \cup {c}
        /\ Details(schedules'[c]) = rec
        /\ \A d \in DOMAIN schedules \ {c} : schedules'[d] = schedules[d]
        /\ inFile => IntStr(c) \in DOMAIN file' /\ file'[IntStr(c)] = rec

AddWritesOneRecord ==
    [][out'.what = "scheduled" =>
          \A args \in ScheduleArgs, ok \in BOOLEAN :
              schedule_command(7, args, "ok", ok) => AddRecord(7, args, ~persistFailed')]_vars

\* C5 as stated: the record is in the file when the add returns, whatever
\* save_schedules did.
AddRecordAlwaysInFile ==
    [][out'.what = "scheduled" =>
          \A args \in ScheduleArgs, ok \in BOOLEAN :
              schedule_command(7, args, "ok", ok) => AddRecord(7, args, TRUE)]_vars

\* A schedule was just made again a minute after the first one: its record
\* and the file carry the new time, the old task has its cancel request,
\* and the schedule of the other chat is there.
AddedAgain ==
    /\ out.what = "scheduled"
    /\ ~persistFailed
    /\ \E c \in DOMAIN schedules :
          /\ schedules[c].last_run = now
          /\ now > 0
          /\ file[IntStr(c)].last_run = now
          /\ \E t \in Handles : tasks[t].chat = c /\ tasks[t].must_cancel
          /\ DOMAIN schedules # {c}

\* C6: whenever the last save_schedules did not fail, the file holds the
\* records of the table without their task handles (a change of the table
\* and its save are one step).
FileMatchesTable == ~persistFailed => file = Serializable(schedules)

\* A schedule was removed and saved a minute after the start, another one
\* is left.
RemovedAndSaved ==
    /\ out.what = "removed"
    /\ ~persistFailed
    /\ now > 0
    /\ DOMAIN file # {}

\* C7: a job task sets last_run only right after a successful send, to the
\* time of that moment; every other step of a task (a cycle that ends
\* without a client, without messages, without a summary, with a transport
\* error or with an unexpected error, and every step in between) leaves the
\* records and the file as they are.
LastRunOnlyAfterSend ==
    [][\/ HandlerWrote
       \/ IF out'.what = "sent"
          THEN LET t == out'.who
                   c == tasks[t].chat
               IN  /\ tasks[t].pc = "send"
                   /\ c \in DOMAIN schedules
                   /\ Serializable(schedules') =
                          [Serializable(schedules) EXCEPT ![IntStr(c)].last_run = now]
                   /\ file' = file \/ file' = Serializable(schedules')
          ELSE /\ Serializable(schedules') = Serializable(schedules)
               /\ file' = file]_vars

\* A task has just sent its summary, later than the schedule was made, and
\* the record and the file carry the time of the send.
SentAndRecorded ==
    /\ out.what = "sent"
    /\ now > 0
    /\ LET c == tasks[out.who].chat
       IN  /\ schedules[c].last_run = now
           /\ IntStr(c) \in DOMAIN file
           /\ file[IntStr(c)].last_run = now

\* C8: when get_chat_messages fails or gives no message, the task stays
\* alive, the records and the file stay as they are, and the task is at
\* the sleep of its nominal interval: no retry at once, no 60-second cooldown.
FetchFailureSleepsInterval ==
    [][\A t \in Handles :
          (out'.who = t /\ out'.what = "no_messages") =>
              /\ tasks[t].pc = "fetch"
              /\ tasks'[t] = [tasks[t] EXCEPT !.pc = "sleep"]
              /\ tasks'[t].interval = schedules'[tasks'[t].chat].interval
              /\ schedules' = schedules
              /\ file' = file]_vars

\* A task found no messages a minute after its schedule was made: it
\* sleeps, and last_run is still the time the schedule was made.
FetchFailedAndSleeping ==
    /\ out.what = "no_messages"
    /\ tasks[out.who].pc = "sleep"
    /\ now > schedules[tasks[out.who].chat].last_run

\* C9: start_scheduler, on the records of the file and no running task,
\* creates exactly one task per record, and the first step of a task is the
\* sleep of its full interval whatever last_run is.
NotDone(tsk) == {t \in Handles : tsk[t].pc # "done"}

ResumeSpawnsOnePerSchedule ==
    [][/\ out'.what = "initialized" =>
            /\ DOMAIN schedules' = {ParseInt(k) : k \in DOMAIN file}
            /\ \A c \in DOMAIN schedules' :
                   /\ {t \in NotDone(tasks') : tasks'[t].chat = c} = {schedules'[c].task}
                   /\ tasks'[schedules'[c].task] =
                          NewTask(c, file[IntStr(c)].interval, file[IntStr(c)].user_id)
            /\ Cardinality(NotDone(tasks')) = Cardinality(DOMAIN file)
       /\ \A t \in Handles :
            (tasks[t].pc = "new" /\ tasks'[t].pc \notin {"new", "done"}) =>
                tasks'[t] = [tasks[t] EXCEPT !.pc = "sleep"]]_vars

\* The bot has just started on a file of two schedules, one of them overdue.
ResumedTwoSchedules ==
    /\ out.what = "initialized"
    /\ Cardinality(DOMAIN file) = 2
    /\ Cardinality(NotDone(tasks)) = 2
    /\ \E t \in Handles : tasks[t].pc = "new" /\ Overdue(t)

\* C10: when shutdown_scheduler has returned, no job task is live.
\* A task created while shutdown_scheduler waits its second is never
\* cancelled, so this fails.
NoLiveTaskAfterShutdown == shutdown = "returned" => \A t \in Handles : ~Live(t)

\* C11: save_schedules followed by load_schedules into an empty table gives
\* back the same set of integer chat ids and, for each of them, the same
\* interval, last_run and user_id, whether or not the entry had a task.
SaveThenLoadGivesSameRecords ==
    [][(out.what = "saved" /\ out'.what \in {"loaded", "load_error", "no_file"}) =>
          /\ out'.what = "loaded"
          /\ DOMAIN schedules' = DOMAIN schedules
          /\ \A c \in DOMAIN schedules :
                 /\ c \in Int
                 /\ Details(schedules'[c]) = Details(schedules[c])
                 /\ DOMAIN Details(schedules'[c]) = {"interval", "last_run", "user_id"}]_vars

\* A table with a negative chat id and two more schedules has been saved
\* and loaded again.
LoadedThreeSchedules ==
    /\ out.what = "loaded"
    /\ DOMAIN schedules = StoreChats
    /\ DOMAIN file = {<<"-", "3">>, <<"0">>, <<"1", "2">>}
    /\ schedules[-3].last_run # schedules[12].last_run

\* The document has another shape than str(chat_id) -> {interval, last_run,
\* user_id}
OddShape ==
    \/ document = "array"
    \/ /\ document = "object"
       /\ \E k \in DOMAIN file :
             ~IsInt(k) \/ {"interval", "last_run", "user_id"} \ DOMAIN file[k] # {}

\* No schedule is loaded and no task is created
NothingLoaded ==
    /\ schedules' = EmptyMap
    /\ \A t \in Handles : tasks'[t] = Free
    /\ UNCHANGED <<file, document>>

\* C12: a start on a missing file, or on a file json.load cannot parse,
\* gets to the end of start_scheduler with an empty table and no task, and
\* the file as it was; the adds and removes that follow write the table
\* to the file as always.
StartOnUnreadableFile ==
    [][/\ (out'.what = "initialized" /\ document \in {"missing", "garbage"}) => NothingLoaded
       /\ out'.what \in {"scheduled", "removed"} =>
              document' = "object" /\ file' = Serializable(schedules')]_vars

\* The bot has just started on a file that holds the text of an entry but
\* does not parse.
StartedOnGarbage ==
    /\ out.what = "initialized"
    /\ document = "garbage"
    /\ DOMAIN file # {}
    /\ schedules = EmptyMap

\* C13: a start on a document of another shape (no object at the top, a
\* key that is no integer, an entry without interval, last_run or user_id)
\* loads no schedule and creates no task.
\* load_schedules stores every entry of an object with integer keys as it
\* is, and start_scheduler creates a task for an entry that has interval
\* and user_id, so this fails.
StartOnOddShapeLoadsNothing ==
    [][(out'.what = "initialized" /\ OddShape) => NothingLoaded]_vars

\* C14: /list_schedule of user u shows the schedules whose user_id is u, all
\* of them and no other (nothing when the client cannot be had), never a
\* task handle, and leaves table, file and tasks as they are.
OwnSchedules(u) ==
    {<<c, [interval |-> schedules[c].interval, last_run |-> schedules[c].last_run,
           user_id |-> u]>> : c \in {d \in DOMAIN schedules : schedules[d].user_id = u}}

Delivered(c) ==
    /\ out.what = "sent"
    /\ tasks[out.who].chat = c
    /\ tasks[out.who].pc = "sleep"
    /\ schedules[c].last_run = now
    /\ file[IntStr(c)].last_run = now

CycleOrder ==
    {<<"done", "new">>, <<"new", "sleep">>, <<"sleep", "client">>, <<"client", "entity">>,
     <<"entity", "fetch">>, <<"fetch", "summarize">>, <<"summarize", "send">>,
     <<"send", "sleep">>}

DeliversEveryInterval ==
    /\ \A c \in Chats : (c \in DOMAIN schedules) ~> Delivered(c)
    /\ [][/\ \A t \in Handles :
                tasks'[t].pc # tasks[t].pc => <<tasks[t].pc, tasks'[t].pc>> \in CycleOrder
          /\ out'.what = "sent" <=>
                \E t \in Handles : tasks[t].pc = "send" /\ tasks'[t].pc = "sleep"]_vars

\* Both schedules have had a summary delivered after the clock went on,
\* the last one just now.
DeliveredToBoth ==
    /\ out.what = "sent"
    /\ now > 0
    /\ DOMAIN schedules = Chats
    /\ \A c \in Chats : schedules[c].last_run = now

\* C16: parse_timestring gives value * 1, 60 or 3600 for exactly the strings
\* of one or more digits followed by one s, m or h in either case ("5m" is
\* 300, "2h" is 7200, "1800s" is 1800), and None for every other string.
\* The `$` of the pattern also matches before a newline that ends the
\* string, so "5m\n" gives 300 and this fails.
DigitsAndUnit(s) ==
    /\ Len(s) >= 2
    /\ s[Len(s)] \in {"s", "m", "h", "S", "M", "H"}
    /\ \A i \in 1..(Len(s) - 1) : IsDigit(s[i])

SecondsOf(s) ==
    DigitsValue(SubSeq(s, 1, Len(s) - 1)) *
        (IF s[Len(s)] \in {"m", "M"} THEN 60 ELSE IF s[Len(s)] \in {"h", "H"} THEN 3600 ELSE 1)

ParsesDigitsAndUnitOnly ==
    out.what = "parse_timestring" =>
        /\ out.data[2] = IF DigitsAndUnit(out.data[1]) THEN SecondsOf(out.data[1]) ELSE None
        /\ out.data[1] = <<"5", "m">> => out.data[2] = 300
        /\ out.data[1] = <<"2", "h">> => out.data[2] = 7200
        /\ out.data[1] = <<"1", "8", "0", "0", "s">> => out.data[2] = 1800

\* C17: for every n >= 0 that is below 60, or a multiple of 60 below 3600,
\* or a multiple of 60 from 3600 on (with or without a minute part),
\* parse_timestring(format_time_interval(n)) = n.
\* "2h 30m", the text for 9000, is no time string for parse_timestring, so
\* this fails.
FormatThenParseGivesSeconds ==
    (/\ out.what = "format_time_interval"
     /\ out.data[1] < 60 \/ out.data[1] % 60 = 0)
        => parse_timestring(out.data[2]) = out.data[1]

\* C18: format_time_interval(n), n >= 0, is "<n>s" below 60, "<n div 60>m"
\* from 60 to 3599, "<n div 3600>h" from 3600 on when (n mod 3600) div 60
\* is 0, and "<h>h <m>m" otherwise.
FormatByRange ==
    out.what = "format_time_interval" =>
        LET n == out.data[1]
            text == out.data[2]
            m == (n % 3600) \div 60
        IN  /\ n < 60 => text = Append(IntStr(n), "s")
            /\ (60 <= n /\ n < 3600) => text = Append(IntStr(n \div 60), "m")
            /\ (n >= 3600 /\ m = 0) => text = Append(IntStr(n \div 3600), "h")
            /\ (n >= 3600 /\ m # 0) =>
                   text = Append(IntStr(n \div 3600), "h") \o <<" ">> \o Append(IntStr(m), "m")

\* 9000 seconds have just been written as "2h 30m".
FormattedHoursAndMinutes ==
    /\ out.what = "format_time_interval"
    /\ out.data = <<9000, <<"2", "h", " ", "3", "0", "m">> >>

\* C19: every time string the /help text gives as an example is taken by
\* parse_timestring, so that /schedule does not answer "Invalid time format".
\* "2h30m" is one of the examples and parse_timestring gives None for it,
\* so this fails.
HelpExamplesAccepted ==
    (out.what = "parse_timestring" /\ out.data[1] \in HelpExamples) =>
        /\ out.data[2] # None
        /\ ScheduleReject(<< <<"1">>, out.data[1] >>) # "invalid_time"

\* C20: from the cancel request on (made by an add that replaces, a remove
\* or the shutdown), a job task takes no step but its termination, which it
\* can take as soon as the event loop is free; it starts no other cycle, and
\* until it has terminated neither the records nor the file change.
CancelPending(t) == tasks[t].must_cancel /\ ~Done(t)

CancelledTaskOnlyTerminates ==
    /\ [](\A t \in Handles : (CancelPending(t) /\ LoopFree) => ENABLED TaskCancelled(t))
    /\ [][\A t \in Handles :
             (CancelPending(t) /\ out'.what # "initialized") =>
                 /\ tasks'[t] = tasks[t] \/ tasks'[t] = Free
                 /\ out'.who = t => out'.what = "cancelled"
                 /\ Serializable(schedules') = Serializable(schedules)
                 /\ file' = file]_vars

\* A task that was replaced by a later /schedule has just ended with its
\* cancellation; the task that replaced it has not yet run.
ReplacedTaskEnded ==
    /\ out.what = "cancelled"
    /\ Done(out.who)
    /\ now > 0
    /\ \E c \in DOMAIN schedules :
          /\ schedules[c].task # NoTask
          /\ tasks[schedules[c].task].pc = "new"
          /\ schedules[c].last_run = now

\* C21: an exception that is no cancellation, raised in a cycle after the
\* wake-up, is caught and logged: the task is then in its cooldown sleep of
\* 60 seconds, the records, the file and every other task are as they
\* were, and the step the task takes after the cooldown is back to the
\* interval sleep.
ExceptionCoolsDownAndResumes ==
    [][\A t \in Handles :
          /\ (out'.who = t /\ out'.what = "error") =>
                 /\ tasks[t].pc \in {"client", "entity", "fetch", "summarize", "send"}
                 /\ tasks'[t] = [tasks[t] EXCEPT !.pc = "cooldown"]
                 /\ SleepSeconds(t)' = 60
                 /\ \A o \in Handles \ {t} : tasks'[o] = tasks[o]
                 /\ schedules' = schedules
                 /\ file' = file
                 /\ shutdown' = shutdown
          /\ (tasks[t].pc = "cooldown" /\ ~tasks[t].must_cancel
                 /\ tasks'[t].pc # "cooldown" /\ out'.what # "initialized") =>
                 /\ tasks'[t] = [tasks[t] EXCEPT !.pc = "sleep"]
                 /\ SleepSeconds(t)' = tasks[t].interval]_vars

\* A task has just caught an exception a minute after its schedule was
\* made and is in the cooldown; the task of the other chat sleeps.
CaughtAndCooling ==
    /\ out.what = "error"
    /\ tasks[out.who].pc = "cooldown"
    /\ now > 0
    /\ \E o \in Handles :
          tasks[o].chat # tasks[out.who].chat /\ tasks[o].pc = "sleep" /\ Live(o)

\* C22: when ensure_telethon_client gives no client, because the reconnect
\* failed or because init_telethon_client failed, the task leaves the
\* records and the file as they are and is next in the sleep of its
\* interval.
\* ensure_telethon_client lets the error of init_telethon_client through
\* when there was no client object before; the task catches it as an
\* unexpected exception and sleeps the 60 seconds of the cooldown before
\* the interval, so this fails.
NoClientSleepsInterval ==
    [][\A t \in Handles :
          (tasks[t].pc = "client" /\ tasks'[t].pc \notin {"client", "entity"}
              /\ ~tasks[t].must_cancel /\ out'.what # "initialized") =>
              /\ tasks'[t] = [tasks[t] EXCEPT !.pc = "sleep"]
              /\ schedules' = schedules
              /\ file' = file]_vars

\* C23: start_scheduler creates a task only for a schedule that has no live
\* task: a task that is live when start_scheduler is called is still the
\* task of its record afterwards, and no chat has two live tasks.
\* start_scheduler creates a task for every record with interval and
\* user_id and overwrites the 'task' of the record, so this fails.
StartSpawnsOnlyMissing ==
    [][out'.what = "initialized" =>
          \A t \in Handles :
              Live(t) =>
                  /\ tasks'[t] = tasks[t]
                  /\ \E c \in DOMAIN schedules' : schedules'[c].task = t
                  /\ \A o \in Handles \ {t} :
                         tasks'[o].chat = tasks[t].chat => tasks'[o].pc = "done"]_vars

\* C24: the last_run of a chat never decreases while its schedule exists,
\* over adds, cycles and failed saves, and over a restart unless the last
\* save_schedules before it failed (the file then holds an older table).
LastRunKept(evenAfterFailedSave) ==
    \A c \in DOMAIN schedules \cap DOMAIN schedules' :
        (evenAfterFailedSave \/ ~(out'.what = "initialized" /\ persistFailed)) =>
            schedules'[c].last_run >= schedules[c].last_run

LastRunNeverDecreases == [][LastRunKept(FALSE)]_vars

\* C24 as stated: also over a restart that follows a failed save.
LastRunNeverDecreasesAtAll == [][LastRunKept(TRUE)]_vars

\* The bot has just started again and a schedule has kept a last_run that
\* was set after the clock went on.
RestartedWithLaterLastRun ==
    /\ out.what = "initialized"
    /\ now > 0
    /\ \E c \in DOMAIN schedules : schedules[c].last_run = now

\* C25: a task that wakes from its interval sleep and does not find its
\* chat_id in the table ends at once: it is done after that step, which
\* logs that the schedule was removed and leaves the table, the file and
\* the other tasks as they are; it does not go on to the client.
WakeWithoutScheduleEnds ==
    [][\A t \in Handles :
          (tasks[t].pc = "sleep" /\ ~tasks[t].must_cancel
              /\ tasks[t].chat \notin DOMAIN schedules /\ tasks'[t] # tasks[t]) =>
              /\ tasks'[t] = Free
              /\ out'.who = t /\ out'.what = "removed_stop"
              /\ \A o \in Handles \ {t} : tasks'[o] = tasks[o]
              /\ schedules' = schedules
              /\ file' = file]_vars

\* A task has just ended because its schedule was gone when it woke up.
EndedWithoutSchedule ==
    /\ out.what = "removed_stop"
    /\ Done(out.who)
    /\ schedules = EmptyMap
    /\ file = EmptyMap

\* C26: an add, a remove and the last_run update of a cycle take effect in
\* the table and end as always (the reply, the log line, the task back in
\* its interval sleep) whether or not their save_schedules failed; a failed
\* save leaves the file as it was, and after a save that succeeds the file
\* holds the table.
FailedSaveKeepsMemory ==
    [][/\ out'.what = "scheduled" =>
              \E c \in DOMAIN schedules' :
                  /\ schedules'[c].last_run = now
                  /\ schedules'[c].task # NoTask
                  /\ tasks[schedules'[c].task].pc = "done"
                  /\ tasks'[schedules'[c].task] =
                         NewTask(c, schedules'[c].interval, schedules'[c].user_id)
       /\ out'.what = "removed" =>
              /\ Cardinality(DOMAIN schedules') = Cardinality(DOMAIN schedules) - 1
              /\ DOMAIN schedules' \subseteq DOMAIN schedules
       /\ out'.what = "sent" =>
              /\ schedules'[tasks[out'.who].chat].last_run = now
              /\ tasks'[out'.who] = [tasks[out'.who] EXCEPT !.pc = "sleep"]
       /\ out'.what \in {"scheduled", "removed", "sent"} =>
              IF persistFailed' THEN file' = file ELSE file' = Serializable(schedules')]_vars

\* A task has just sent its summary and set last_run, and the save failed:
\* the file still has the time the schedule was made.
SentButNotSaved ==
    /\ out.what = "sent"
    /\ persistFailed
    /\ LET c == tasks[out.who].chat
       IN  /\ schedules[c].last_run = now
           /\ IntStr(c) \in DOMAIN file
           /\ file[IntStr(c)].last_run < now

\* C27: shutdown_scheduler, from its first step to its return, and the
\* tasks that end because it cancelled them, leave the file and the
\* interval, last_run and user_id of every record as they are; the start
\* that follows the shutdown loads the records the table had.
SameRecords ==
    /\ file' = file
    /\ document' = document
    /\ Serializable(schedules') = Serializable(schedules)

ShutdownOnlyCancels ==
    [][/\ (shutdown' # shutdown /\ out'.what # "initialized") => SameRecords
       /\ (shutdown = "waiting"
              /\ \E t \in Handles : tasks[t].must_cancel /\ tasks'[t] = Free) => SameRecords
       /\ (shutdown = "returned" /\ out'.what = "initialized") => SameRecords]_vars

\* shutdown_scheduler has returned a minute after the start; the table has
\* two schedules, the file has them too, and every task has ended.
ShutDownWithTwoSchedules ==
    /\ shutdown = "returned"
    /\ now > 0
    /\ Cardinality(DOMAIN schedules) = 2
    /\ Cardinality(DOMAIN file) = 2
    /\ \A t \in Handles : Done(t)

\* C28: /schedule answers "invalid time format" exactly for a time string
\* that parse_timestring does not take; a string that parses to zero
\* seconds ("0m") is answered as below the minimum of a minute.
\* schedule_command tests `if not interval_seconds`, which is true for 0 as
\* for None, so this fails.
ZeroIsNotInvalidFormat ==
    [][\A args \in UserScheduleArgs, acc \in Access :
          (Len(args) = 2 /\ IsInt(args[1]) /\ schedule_command(7, args, acc, TRUE)) =>
              /\ out'.what = "invalid_time" <=> parse_timestring(args[2]) = None
              /\ parse_timestring(args[2]) = 0 => out'.what = "min_interval"]_vars

\* C29: every entry of the file has the keys interval, last_run and user_id
\* and no other, so never a task handle, whether an add, a cycle or a
\* start wrote the table that the file holds.
FileHasNoTaskHandle ==
    \A k \in DOMAIN file : DOMAIN file[k] = {"interval", "last_run", "user_id"}

\* The file holds two schedules whose records in the table have a task
\* each; one of them has just been written again by a cycle.
FileOfTwoRunningSchedules ==
    /\ out.what = "sent"
    /\ ~persistFailed
    /\ now > 0
    /\ Cardinality(DOMAIN file) = 2
    /\ \A c \in DOMAIN schedules : schedules[c].task # NoTask
    /\ \E c \in DOMAIN schedules, d \in DOMAIN schedules :
          schedules[c].last_run = now /\ schedules[d].last_run < now

\* C30: a /schedule, /remove_schedule or /list_schedule of a user leaves
\* every schedule of another user as it is: the same record, and the same
\* task, without a cancel request.
\* schedule_command never looks at the owner of the record it replaces:
\* the /schedule of another user cancels the task and makes the schedule
\* theirs, so this fails.
OthersUntouched(u) ==
    \A c \in DOMAIN schedules :
        schedules[c].user_id # u =>
            /\ c \in DOMAIN schedules'
            /\ schedules'[c] = schedules[c]
            /\ schedules[c].task # NoTask => tasks'[schedules[c].task] = tasks[schedules[c].task]

OnlyOwnerChangesSchedule ==
    [][HandlerWrote =>
          \A u \in Users :
              /\ \A args \in ScheduleArgs :
                     schedule_command(u, args, "ok", TRUE) => OthersUntouched(u)
              /\ \A args \in UserRemoveArgs, ok \in BOOLEAN :
                     remove_schedule_command(u, args, ok) => OthersUntouched(u)
              /\ \A acc \in {"ok", "no_client"} :
                     list_schedules_command(u, acc) => OthersUntouched(u)]_vars

\* C31: when start_scheduler has completed, every schedule of the table has
\* a live job task: no entry of the file is in the table without a task
\* that runs it.
\* An entry of the file without 'user_id' (or without 'interval') is copied
\* into the table by load_schedules and passed over by start_scheduler: it
\* stays in the table, and in the file at the next save, with no task.  The
\* cause is the one of C13.
HasLiveTask(c) ==
    /\ schedules[c].task # NoTask
    /\ Live(schedules[c].task)

EveryLoadedScheduleRuns ==
    [][out'.what = "initialized" => \A c \in DOMAIN schedules' : HasLiveTask(c)']_vars

\* C32: a job task that runs (spawned, not ended, no cancel requested) has
\* the interval and the user_id of the record of its chat: the chat is in
\* the table, the task sleeps the interval recorded there, and a summary it
\* sends goes to the user_id recorded there.
TaskMatchesRecord ==
    \A t \in Handles :
        Live(t) =>
            /\ tasks[t].chat \in DOMAIN schedules
            /\ tasks[t].interval = schedules[tasks[t].chat].interval
            /\ tasks[t].user_id = schedules[tasks[t].chat].user_id
            /\ schedules[tasks[t].chat].task = t

\* The schedule of chat 1, of user 7 every minute, has just been replaced by
\* one of user 8 every day: the old task has its cancel request and has not
\* ended yet, the new task runs with the interval and the user of the record.
ReplacedByOtherOwner ==
    /\ 1 \in DOMAIN schedules
    /\ schedules[1].user_id = 8
    /\ schedules[1].interval = MAX_INTERVAL
    /\ \E t \in Handles, s \in Handles :
          /\ Live(t)
          /\ tasks[t].chat = 1 /\ tasks[t].user_id = 8 /\ tasks[t].interval = MAX_INTERVAL
          /\ ~Done(s) /\ tasks[s].must_cancel
          /\ tasks[s].chat = 1 /\ tasks[s].user_id = 7 /\ tasks[s].interval = MIN_INTERVAL

\* C33: a /remove_schedule that succeeds and whose save did not fail leaves
\* the chat in neither the table nor the file, and a chat that is in
\* neither comes back only by a /schedule for it: no step of a job task,
\* cancelled, sleeping or in the middle of a cycle, and no restart makes the
\* record again or writes it to the file again.
AbsentEverywhere(c) == c \notin DOMAIN schedules /\ IntStr(c) \notin DOMAIN file

RemovedStaysRemoved ==
    [][/\ out'.what = "removed" =>
             \A args \in RemoveArgs, ok \in BOOLEAN :
                 remove_schedule_command(7, args, ok) =>
                     /\ ParseInt(args[1]) \notin DOMAIN schedules'
                     /\ ok => AbsentEverywhere(ParseInt(args[1]))'
       /\ \A c \in Chats :
             (AbsentEverywhere(c) /\ ~AbsentEverywhere(c)') => out'.what = "scheduled"]_vars

\* C33 as stated: every removal that succeeds leaves the chat in neither
\* the table nor the file, and a chat that is not in the table comes back
\* only by a /schedule for it.
RemovedStaysRemovedAlways ==
    [][/\ out'.what = "removed" =>
             \A args \in RemoveArgs, ok \in BOOLEAN :
                 remove_schedule_command(7, args, ok) =>
                     AbsentEverywhere(ParseInt(args[1]))'
       /\ \A c \in Chats :
             (c \notin DOMAIN schedules /\ c \in DOMAIN schedules') =>
                 out'.what = "scheduled"]_vars

\* Chat 1 was removed and saved while chat 2 went on: the task of chat 2
\* has since sent a summary and saved the table, and chat 1 is in neither
\* the table nor the file.
OtherChatSavedAfterRemoval ==
    /\ out.what = "sent"
    /\ ~persistFailed
    /\ AbsentEverywhere(1)
    /\ 2 \in DOMAIN schedules
    /\ IntStr(2) \in DOMAIN file
    /\ \A t \in Handles : tasks[t].chat # 1

\* C34: when two or more coroutines call ensure_telethon_client while the
\* client is absent or disconnected, at most one of them is starting or
\* connecting a client at any time, the global telethon_client is not
\* replaced while another caller is still starting it, and the callers that
\* are given a client are given the same one.
\* Neither function takes a lock.  The first caller makes a client, stores
\* it in the global and awaits start(); the second finds the global set and
\* not connected and awaits connect() on the same object, and when that
\* fails it makes a second client and stores it over the first.
Connecting(k) == telethon.calls[k].pc \in {"start", "connect"}

OneConnectionAtATime == Cardinality({k \in Callers : Connecting(k)}) <= 1

NotReplacedWhileStarted ==
    telethon'.telethon_client # telethon.telethon_client =>
        ~\E k \in Callers :
            /\ telethon.calls[k].pc = "start"
            /\ telethon.calls[k].on = telethon.telethon_client
            /\ telethon'.calls[k] = telethon.calls[k]

SameClientForAll ==
    \A k \in Callers, j \in Callers :
        (/\ telethon.calls[k].pc = "returned" /\ telethon.calls[k].result # NoClient
         /\ telethon.calls[j].pc = "returned" /\ telethon.calls[j].result # NoClient)
            => telethon.calls[k].result = telethon.calls[j].result

OneClientInitialisation ==
    /\ [](OneConnectionAtATime /\ SameClientForAll)
    /\ [][NotReplacedWhileStarted]_vars

\* C35: chat_completion ends for every list of keys, a key value more than
\* once or not, and every outcome of the requests: it makes at most
\* len(api_keys) requests, and it returns None only after a request with
\* every key, with current_key_index as it was at entry.
\* tried_keys is a set of key values and the loop goes on while it has
\* fewer members than api_keys has entries: with a value that is in the
\* list twice it never has that many, and while the requests fail the loop
\* makes one request after the other without end.
CompletionBounded ==
    /\ openrouter.requests <= Len(openrouter.api_keys)
    /\ (openrouter.pc = "returned" /\ openrouter.result = "None") =>
          /\ openrouter.requests = Len(openrouter.api_keys)
          /\ openrouter.current_key_index = openrouter.initial_key_index

\* C36: a call of init_telethon_client that has no connected client to
\* return calls start() at most max_retries times and sleeps retry_delay
\* between one attempt and the next, never after the last; it returns only
\* a client on which start() and get_me() have succeeded, after the first
\* attempt that succeeds, it raises only when the credentials are missing
\* or the last of max_retries attempts has failed, and it never returns
\* None.
AttemptsBounded ==
    \A k \in Callers :
        LET call == telethon.calls[k]
        IN  call.fn = "init" =>
                /\ call.starts <= MAX_RETRIES
                /\ call.attempt <= call.starts
                /\ call.pc \in {"start", "get_me"} =>
                      /\ call.starts = call.attempt + 1
                      /\ call.waited = RETRY_DELAY * call.attempt
                /\ call.pc = "retry_sleep" =>
                      /\ call.starts = call.attempt
                      /\ call.attempt < MAX_RETRIES
                      /\ call.waited = RETRY_DELAY * (call.attempt - 1)
                /\ call.pc = "returned" =>
                      /\ call.result # NoClient
                      /\ call.waited = RETRY_DELAY * call.attempt
                /\ call.pc = "raised" =>
                      \/ ~telethon.configured /\ call.starts = 0
                      \/ /\ call.attempt = MAX_RETRIES
                         /\ call.starts = MAX_RETRIES
                         /\ call.waited = RETRY_DELAY * (MAX_RETRIES - 1)

ReturnsStartedClient ==
    \A k \in Callers :
        (/\ telethon'.calls[k].fn = "init"
         /\ telethon'.calls[k].pc = "returned"
         /\ telethon.calls[k].pc # "returned")
            => /\ telethon'.calls[k].result = telethon'.telethon_client
               /\ telethon'.calls[k].result \in telethon'.connected

InitBounded == []AttemptsBounded /\ [][ReturnsStartedClient]_vars

\* The call has raised after the last of its attempts
RaisedAfterLastAttempt ==
    /\ telethon.calls[1].fn = "init"
    /\ telethon.calls[1].pc = "raised"
    /\ telethon.calls[1].starts = MAX_RETRIES
    /\ telethon.calls[1].waited = RETRY_DELAY * (MAX_RETRIES - 1)

\* C37: get_chat_messages returns at most `limit` entries, one for each
\* fetched message that has a text, in the order of the iteration, and
\* fetches no further once the texts together are longer than max_chars,
\* so that the texts of all entries but the last are at most max_chars
\* together; without a client and when a call it makes raises, it returns
\* None and does not raise.
\* `client = await ensure_telethon_client()` stands before the try of
\* get_chat_messages: when init_telethon_client raises there (C22), the
\* error leaves get_chat_messages.
WithText(history, limit) ==
    SelectSeq(SubSeq(history, 1, IF Len(history) < limit THEN Len(history) ELSE limit),
              LAMBDA message : message.text # << >>)

RECURSIVE TextLength(_, _)
TextLength(messages, n) ==
    IF n = 0 THEN 0 ELSE TextLength(messages, n - 1) + Len(messages[n].text)

\* The number of messages with a text the loop comes to
Reached(messages, max_chars) ==
    IF \E n \in 1..Len(messages) : TextLength(messages, n) > max_chars
    THEN CHOOSE n \in 1..Len(messages) :
            /\ TextLength(messages, n) > max_chars
            /\ \A m \in 1..(n - 1) : TextLength(messages, m) <= max_chars
    ELSE Len(messages)

FetchOutcome(client, history, limit, max_chars, failAt, result) ==
    LET messages == WithText(history, limit)
        n == Reached(messages, max_chars)
        failed == \/ failAt = 0
                  \/ /\ failAt \in 1..Len(history)
                     /\ failAt <= limit
                     /\ history[failAt].text # << >>
                     /\ Len(WithText(history, failAt)) <= n
    IN  /\ result[1] # "raise"
        /\ (client # "ok" \/ failed) => result = <<"None">>
        /\ (client = "ok" /\ ~failed) =>
              /\ result[1] = "list"
              /\ Len(result[2]) <= limit
              /\ Len(result[2]) = n
              /\ \A i \in 1..n : result[2][i] = messages[i].sender \o <<":", " ">> \o messages[i].text
              /\ n > 0 => TextLength(messages, n - 1) <= max_chars

FetchBoundedAndSafe ==
    out.what = "get_chat_messages" =>
        FetchOutcome(out.data[1], out.data[2], out.data[3], out.data[4], out.data[5],
                     out.data[6])


====
